---- MODULE Spec2Model ----
(***************************************************************************)
(* Model of src/visualizeData.py: class VisualizeFilings.                  *)
(*                                                                         *)
(* The two data providers (SEC company facts, Finnhub peers) and the two   *)
(* static catalogs are fixed tables; a chart request is run step by step   *)
(* (peer expansion, one loop iteration per ticker, layout + fig.show).     *)
(* An exception that leaves a chart method ends the request in "aborted".  *)
(***************************************************************************)
EXTENDS Integers, Sequences, FiniteSets, TLC

\* ------------------------------------------------------------------ bounds
MaxTickers == 2
MaxIndustries == 2

\* ------------------------------------------------------- JSON value markers
\* A record field that is JSON null, and a key that is missing from a record.
Null == "null"
Absent == "absent"
\* A local variable that has not been assigned yet.
Unbound == "unbound"

Metrics == {"EarningsPerShareBasic", "Revenues"}

\* ---------------------------------------------------------- static catalogs
\* ./company_tickers.json, key "data": (CIK, Name, Ticker, Exchange)
company_list ==
  << <<1, "Apple", "AAPL", "Nasdaq">>,
     <<2, "Tesla", "TSLA", "Nasdaq">>,
     <<3, "Microsoft", "MSFT", "Nasdaq">>,
     <<4, "Netflix", "NFLX", "Nasdaq">>,
     <<5, "IBM", "IBM", "NYSE">>,
     <<6, "Alphabet", "GOOG", "Nasdaq">> >>

\* ./finnhub_industries.json
industry_dict ==
  [ind \in {"Technology", "Financial Services", "Pharmaceuticals"} |->
     CASE ind = "Technology" -> <<"AAPL", "MSFT", "ZZZZ">>
       [] ind = "Financial Services" -> <<"IBM", "NFLX">>
       [] OTHER -> <<"TSLA", "GOOG">>]

\* Symbols and industry names a caller may pass ("ZZZZ" and "Utilities" are
\* in neither catalog).
InputTickers == {"AAPL", "TSLA", "MSFT", "NFLX", "IBM", "GOOG", "ZZZZ"}
InputIndustries == {"Technology", "Financial Services", "Pharmaceuticals", "Utilities"}

\* ------------------------------------------------------- filings provider
Rec(accn, end, val, form, frame) ==
  [accn |-> accn, end |-> end, val |-> val, form |-> form, frame |-> frame]

Unit(label, records) == [label |-> label, records |-> records]

\* facts.us-gaap of a response: metric name -> units mapping, the mapping
\* kept as the sequence of its (key, value) pairs in iteration order.
AppleFacts ==
  [m \in Metrics |->
     IF m = "EarningsPerShareBasic"
     THEN << Unit("USD/shares",
                  << Rec(101, "2020-12-31", 5, "10-K", "CY2020"),
                     Rec(102, "2020-03-31", 7, "10-Q", "CY2020Q1"),
                     Rec(103, "2020-06-30", 8, "10-Q", Null),
                     Rec(104, "2020-06-30", 9, "10-Q", "CY2020Q2"),
                     Rec(105, "2020-09-30", 6, "8-K", Absent) >>),
             Unit("USD",
                  << Rec(111, "2020-03-31", 70, "10-Q", "CY2020Q1") >>) >>
     ELSE << Unit("USD",
                  << Rec(121, "2020-03-31", 50, "10-Q", "CY2020Q1"),
                     Rec(122, "2020-12-31", 60, "10-K", Absent) >>) >>]

TeslaFacts ==
  [m \in {"EarningsPerShareBasic"} |->
     << Unit("USD/shares",
             << Rec(201, "2020-03-31", 3, "10-Q", "CY2020Q1"),
                Rec(202, "2020-06-30", 4, "10-Q", "CY2020Q2") >>) >>]

\* EarningsPerShareBasic: every record fails the filter, the frame column
\* exists.  Revenues: an empty units mapping.
MicrosoftFacts ==
  [m \in Metrics |->
     IF m = "EarningsPerShareBasic"
     THEN << Unit("USD/shares",
                  << Rec(301, "2020-12-31", 11, "10-K", "CY2020"),
                     Rec(302, "2020-03-31", 12, "10-Q", Null) >>) >>
     ELSE << >>]

\* EarningsPerShareBasic: no record carries a frame key.  Revenues: reported
\* in EUR first.
AlphabetFacts ==
  [m \in Metrics |->
     IF m = "EarningsPerShareBasic"
     THEN << Unit("USD/shares",
                  << Rec(601, "2020-03-31", 21, "10-Q", Absent),
                     Rec(602, "2020-06-30", 22, "10-Q", Absent) >>) >>
     ELSE << Unit("EUR",
                  << Rec(611, "2020-03-31", 40, "10-Q", "CY2020Q1"),
                     Rec(612, "2020-06-30", 45, "10-Q", "CY2020Q2") >>),
             Unit("USD",
                  << Rec(621, "2020-03-31", 44, "10-Q", "CY2020Q1") >>) >>]

NoFacts == [m \in {} |-> << >>]

\* requests.get(url, headers=...).json() for the company facts of one CIK:
\* kind "error" stands for a failed request or a body that is not JSON (the
\* call raises), kind "json" for a decoded body.
SecGet(CIK) ==
  CASE CIK = 1 -> [kind |-> "json", gaap |-> TRUE, facts |-> AppleFacts]
    [] CIK = 2 -> [kind |-> "json", gaap |-> TRUE, facts |-> TeslaFacts]
    [] CIK = 3 -> [kind |-> "json", gaap |-> TRUE, facts |-> MicrosoftFacts]
    [] CIK = 4 -> [kind |-> "error", gaap |-> FALSE, facts |-> NoFacts]
    [] CIK = 5 -> [kind |-> "json", gaap |-> FALSE, facts |-> NoFacts]
    [] OTHER -> [kind |-> "json", gaap |-> TRUE, facts |-> AlphabetFacts]

\* ------------------------------------------------------------ peer provider
\* requests.get(url, headers=...).json() for the peers of one ticker: kind
\* "error" (the call raises), "array" (JSON array), "object" (JSON object,
\* items are its keys in order), "scalar" (JSON number or null).
PeerGet(ticker, criteria) ==
  CASE ticker = "AAPL" -> [kind |-> "array", items |-> <<"AAPL", "MSFT", "TSLA">>]
    [] ticker = "TSLA" -> [kind |-> "object", items |-> <<"error">>]
    [] ticker = "MSFT" -> [kind |-> "array", items |-> <<"IBM", "ZZZZ">>]
    [] ticker = "NFLX" -> [kind |-> "error", items |-> << >>]
    [] ticker = "IBM" -> [kind |-> "array", items |-> <<"AAPL">>]
    [] ticker = "GOOG" -> [kind |-> "scalar", items |-> << >>]
    [] OTHER -> [kind |-> "array", items |-> << >>]

\* ------------------------------------------------------------ constructor
RECURSIVE BuildTickerToCIK(_)
BuildTickerToCIK(companies) ==
  IF companies = << >> THEN [t \in {} |-> 0]
  ELSE LET n == Len(companies)
           rest == BuildTickerToCIK(SubSeq(companies, 1, n - 1))
           ticker == companies[n][3]
           CIK == companies[n][1]
       IN [t \in (DOMAIN rest) \cup {ticker} |->
             IF t = ticker THEN CIK ELSE rest[t]]

\* ------------------------------------------------------------- data frames
\* pd.DataFrame(list of records): one row per record, labelled 0..n-1 in
\* record order; a column exists iff some record has the key.
DataFrame(records) ==
  [k \in 1..Len(records) |->
     [idx |-> k - 1, accn |-> records[k].accn, end |-> records[k].end,
      val |-> records[k].val, form |-> records[k].form,
      frame |-> records[k].frame]]

HasColumn(df, col) == \E k \in 1..Len(df) : df[k][col] # Absent

NotNa(v) == v \notin {Null, Absent}

\* df[mask] for a boolean Series mask labelled by row index: the mask is
\* reindexed to the frame's rows, the rows keep their order.
BoolIndex(df, mask) == SelectSeq(df, LAMBDA row : mask[row.idx])

RowLabels(df) == {df[k].idx : k \in 1..Len(df)}
RowAt(df, label) == df[CHOOSE k \in 1..Len(df) : df[k].idx = label]

FilterFormOnly(metric_df) ==
  BoolIndex(metric_df,
            [l \in RowLabels(metric_df) |-> RowAt(metric_df, l).form = "10-Q"])

\* metric_df[metric_df.frame.notna()][metric_df.form == "10-Q"]
FilterQuarterly(metric_df) ==
  LET notna == [l \in RowLabels(metric_df) |-> NotNa(RowAt(metric_df, l).frame)]
      is10Q == [l \in RowLabels(metric_df) |-> RowAt(metric_df, l).form = "10-Q"]
  IN BoolIndex(BoolIndex(metric_df, notna), is10Q)

LastUnit(units) == units[Len(units)].label

\* list(...["units"])[0]
FirstUnit(units) == units[1].label

UnitRecords(units, label) ==
  units[CHOOSE k \in 1..Len(units) : units[k].label = label].records

HeadVal(metric_df) == metric_df[1].val

\* metric_df.tail(1)["val"].iloc[0]
TailVal(metric_df) == metric_df[Len(metric_df)].val

Column(df, col) == [k \in 1..Len(df) |-> df[k][col]]

\* ------------------------------------------------------------- getMetricDF
Raised(exc) ==
  [kind |-> "raise", exc |-> exc, diag |-> FALSE, df |-> << >>, units |-> Unbound]
NoneReturned ==
  [kind |-> "none", exc |-> "", diag |-> TRUE, df |-> << >>, units |-> Unbound]
Returned(df, units) ==
  [kind |-> "ok", exc |-> "", diag |-> FALSE, df |-> df, units |-> units]

\* The outcome of one call: "raise" (an exception leaves the method), "none"
\* (the except branch: the notice is printed, None is returned) or "ok" (the
\* pair (metric_df, UNITS) is returned).
getMetricDF(map, ticker, metric) ==
  IF ticker \notin DOMAIN map THEN Raised("KeyError")
  ELSE LET company_facts == SecGet(map[ticker]) IN
    IF company_facts.kind = "error" THEN Raised("RequestException")
    ELSE IF ~company_facts.gaap THEN NoneReturned
    ELSE IF metric \notin DOMAIN company_facts.facts THEN NoneReturned
    ELSE LET units == company_facts.facts[metric] IN
      IF units = << >> THEN NoneReturned
      ELSE LET UNITS == FirstUnit(units)
               metric_df == DataFrame(UnitRecords(units, UNITS))
           IN IF ~HasColumn(metric_df, "frame") \/ ~HasColumn(metric_df, "form")
              THEN NoneReturned
              ELSE Returned(FilterQuarterly(metric_df), UNITS)

\* ------------------------------------------------------ getSimilarCompanies
getSimilarCompanies(ticker, criteria) ==
  LET similar_companies_json == PeerGet(ticker, criteria) IN
    CASE similar_companies_json.kind = "error" ->
           [kind |-> "raise", exc |-> "RequestException", list |-> << >>]
      [] similar_companies_json.kind = "scalar" ->
           [kind |-> "raise", exc |-> "TypeError", list |-> << >>]
      [] OTHER ->
           [kind |-> "ok", exc |-> "", list |-> similar_companies_json.items]

NeedsPeersUpToTwo(tickers) == Len(tickers) >= 1 /\ Len(tickers) <= 2

\* if len(tickers) == 1
NeedsPeers(tickers) == Len(tickers) = 1

\* ------------------------------------------------------------------- state
VARIABLES
  ticker_to_CIK,  \* self.ticker_to_CIK
  pc,             \* position of the running chart method
  chart,          \* the chart method that was called
  metric1,        \* metric (metric1 of scatterPlot)
  metric2,        \* metric2 of scatterPlot
  input,          \* the tickers / industries argument as passed
  tickers,        \* local variable tickers
  i,              \* position of the ticker loop
  j,              \* position of the industry loop
  metric_list,    \* overlappingHistogram: values of the current industry
  fig,            \* traces added to the figure
  val_map,        \* pieChart: insertion-ordered dict ticker -> value
  xy_map,         \* scatterPlot: insertion-ordered dict ticker -> [x, y]
  UNITS,          \* local variable UNITS (Unbound until first assigned)
  UNITS1,         \* scatterPlot: local variable UNITS1
  UNITS2,         \* scatterPlot: local variable UNITS2
  stdout,         \* printed notices, as (ticker, metric) pairs
  fetchLog,       \* calls of getMetricDF, in call order
  peerLog,        \* calls of getSimilarCompanies, in call order
  shown,          \* what fig.show() was given
  error           \* the exception that left the chart method, if any

vars == <<ticker_to_CIK, pc, chart, metric1, metric2, input, tickers, i, j,
          metric_list, fig, val_map, xy_map, UNITS, UNITS1, UNITS2, stdout,
          fetchLog, peerLog, shown, error>>

PeerCharts == {"lineGraph", "areaGraph", "pieChart", "scatterPlot"}

SeqsUpTo(S, n) == UNION {[1..k -> S] : k \in 0..n}

NoShow == [labels |-> << >>, data |-> << >>, units |-> << >>]

Fresh ==
  /\ tickers = << >> /\ i = 1 /\ j = 1
  /\ metric_list = << >> /\ fig = << >> /\ val_map = << >> /\ xy_map = << >>
  /\ UNITS = Unbound /\ UNITS1 = Unbound /\ UNITS2 = Unbound
  /\ stdout = << >> /\ fetchLog = << >> /\ peerLog = << >>
  /\ shown = NoShow /\ error = ""

\* __init__, then no chart method running
Init ==
  /\ ticker_to_CIK = BuildTickerToCIK(company_list)
  /\ pc = "idle" /\ chart = "" /\ metric1 = "" /\ metric2 = ""
  /\ input = << >>
  /\ Fresh

\* A call of one of the four ticker-list chart methods.
Call(method, m1, m2, arg) ==
  /\ pc = "idle"
  /\ chart' = method /\ metric1' = m1 /\ metric2' = m2
  /\ input' = arg /\ tickers' = arg
  /\ pc' = "expand"
  /\ UNCHANGED <<ticker_to_CIK, i, j, metric_list, fig, val_map, xy_map,
                 UNITS, UNITS1, UNITS2, stdout, fetchLog, peerLog, shown, error>>

lineGraph ==
  \E metric \in Metrics, arg \in SeqsUpTo(InputTickers, MaxTickers) :
    Call("lineGraph", metric, "", arg)

areaGraph ==
  \E metric \in Metrics, arg \in SeqsUpTo(InputTickers, MaxTickers) :
    Call("areaGraph", metric, "", arg)

pieChart ==
  \E metric \in Metrics, arg \in SeqsUpTo(InputTickers, MaxTickers) :
    Call("pieChart", metric, "", arg)

scatterPlot ==
  \E m1 \in Metrics, m2 \in Metrics, arg \in SeqsUpTo(InputTickers, MaxTickers) :
    Call("scatterPlot", m1, m2, arg)

overlappingHistogram ==
  \E metric \in Metrics, industries \in SeqsUpTo(InputIndustries, MaxIndustries) :
    /\ pc = "idle"
    /\ chart' = "overlappingHistogram" /\ metric1' = metric /\ metric2' = ""
    /\ input' = industries
    /\ pc' = "industry"
    /\ UNCHANGED <<ticker_to_CIK, tickers, i, j, metric_list, fig, val_map,
                   xy_map, UNITS, UNITS1, UNITS2, stdout, fetchLog, peerLog,
                   shown, error>>

AfterLoop(k, list) == IF k > Len(list) THEN "layout" ELSE "loop"

\* if len(tickers) == 1: tickers = self.getSimilarCompanies(tickers[0], "sector")
PeerExpansion ==
  /\ pc = "expand"
  /\ IF NeedsPeers(tickers)
     THEN LET r == getSimilarCompanies(tickers[1], "sector") IN
          /\ peerLog' = Append(peerLog, <<tickers[1], "sector">>)
          /\ IF r.kind = "raise"
             THEN /\ pc' = "aborted" /\ error' = r.exc
                  /\ UNCHANGED tickers
             ELSE /\ tickers' = r.list
                  /\ pc' = AfterLoop(1, r.list)
                  /\ UNCHANGED error
     ELSE /\ pc' = AfterLoop(1, tickers)
          /\ UNCHANGED <<tickers, peerLog, error>>
  /\ UNCHANGED <<ticker_to_CIK, chart, metric1, metric2, input, i, j,
                 metric_list, fig, val_map, xy_map, UNITS, UNITS1, UNITS2,
                 stdout, fetchLog, shown>>

LogEntry(ticker, metric, slot, r) ==
  [ticker |-> ticker, metric |-> metric, slot |-> slot, kind |-> r.kind,
   units |-> r.units, df |-> r.df]

Printed(out, ticker, metric, r) ==
  IF r.diag THEN Append(out, <<ticker, metric>>) ELSE out

\* d[key] = val on an insertion-ordered dict
DictSet(d, key, val) ==
  IF \E k \in 1..Len(d) : d[k].key = key
  THEN [k \in 1..Len(d) |-> IF d[k].key = key THEN [key |-> key, val |-> val] ELSE d[k]]
  ELSE Append(d, [key |-> key, val |-> val])

Trace(name, x, y) == [name |-> name, x |-> x, y |-> y]

\* One pass of the loop body of lineGraph / areaGraph.
GraphIteration(method) ==
  /\ pc = "loop" /\ chart = method
  /\ LET ticker == tickers[i]
         r == getMetricDF(ticker_to_CIK, ticker, metric1)
     IN /\ fetchLog' = Append(fetchLog, LogEntry(ticker, metric1, 1, r))
        /\ stdout' = Printed(stdout, ticker, metric1, r)
        /\ IF r.kind = "ok"
           THEN /\ UNITS' = r.units
                /\ fig' = Append(fig, Trace(ticker, Column(r.df, "end"),
                                            Column(r.df, "val")))
           ELSE UNCHANGED <<UNITS, fig>>
  /\ i' = i + 1
  /\ pc' = AfterLoop(i + 1, tickers)
  /\ UNCHANGED <<ticker_to_CIK, chart, metric1, metric2, input, tickers, j,
                 metric_list, val_map, xy_map, UNITS1, UNITS2, peerLog,
                 shown, error>>

lineGraphIteration == GraphIteration("lineGraph")

areaGraphIteration == GraphIteration("areaGraph")

pieChartIteration ==
  /\ pc = "loop" /\ chart = "pieChart"
  /\ LET ticker == tickers[i]
         r == getMetricDF(ticker_to_CIK, ticker, metric1)
     IN /\ fetchLog' = Append(fetchLog, LogEntry(ticker, metric1, 1, r))
        /\ stdout' = Printed(stdout, ticker, metric1, r)
        /\ IF r.kind = "ok"
           THEN /\ UNITS' = r.units
                /\ IF r.df # << >>
                   THEN val_map' = DictSet(val_map, ticker, TailVal(r.df))
                   ELSE UNCHANGED val_map
           ELSE UNCHANGED <<UNITS, val_map>>
  /\ i' = i + 1
  /\ pc' = AfterLoop(i + 1, tickers)
  /\ UNCHANGED <<ticker_to_CIK, chart, metric1, metric2, input, tickers, j,
                 metric_list, fig, xy_map, UNITS1, UNITS2, peerLog, shown, error>>

scatterPlotIteration ==
  /\ pc = "loop" /\ chart = "scatterPlot"
  /\ LET ticker == tickers[i]
         r1 == getMetricDF(ticker_to_CIK, ticker, metric1)
         r2 == getMetricDF(ticker_to_CIK, ticker, metric2)
     IN IF r1.kind # "ok"
        THEN /\ fetchLog' = Append(fetchLog, LogEntry(ticker, metric1, 1, r1))
             /\ stdout' = Printed(stdout, ticker, metric1, r1)
             /\ UNCHANGED <<UNITS1, UNITS2, xy_map>>
        ELSE /\ fetchLog' = fetchLog \o <<LogEntry(ticker, metric1, 1, r1),
                                          LogEntry(ticker, metric2, 2, r2)>>
             /\ stdout' = Printed(stdout, ticker, metric2, r2)
             /\ UNITS1' = r1.units
             /\ IF r2.kind = "ok"
                THEN /\ UNITS2' = r2.units
                     /\ IF r1.df # << >> /\ r2.df # << >>
                        THEN xy_map' = DictSet(xy_map, ticker,
                                               <<TailVal(r1.df), TailVal(r2.df)>>)
                        ELSE UNCHANGED xy_map
                ELSE UNCHANGED <<UNITS2, xy_map>>
  /\ i' = i + 1
  /\ pc' = AfterLoop(i + 1, tickers)
  /\ UNCHANGED <<ticker_to_CIK, chart, metric1, metric2, input, tickers, j,
                 metric_list, fig, val_map, UNITS, peerLog, shown, error>>

\* fig.update_layout(... yaxis_title=f"{metric} ({UNITS})" ...); fig.show()
GraphShow(method) ==
  /\ pc = "layout" /\ chart = method
  /\ IF UNITS = Unbound
     THEN /\ pc' = "aborted" /\ error' = "UnboundLocalError"
          /\ UNCHANGED shown
     ELSE /\ pc' = "rendered"
          /\ shown' = [labels |-> Column(fig, "name"),
                       data |-> [k \in 1..Len(fig) |-> [x |-> fig[k].x, y |-> fig[k].y]],
                       units |-> <<UNITS>>]
          /\ UNCHANGED error
  /\ UNCHANGED <<ticker_to_CIK, chart, metric1, metric2, input, tickers, i, j,
                 metric_list, fig, val_map, xy_map, UNITS, UNITS1, UNITS2,
                 stdout, fetchLog, peerLog>>

lineGraphShow == GraphShow("lineGraph")

areaGraphShow == GraphShow("areaGraph")

pieChartShow ==
  /\ pc = "layout" /\ chart = "pieChart"
  /\ pc' = "rendered"
  /\ shown' = [labels |-> Column(val_map, "key"),
               data |-> Column(val_map, "val"),
               units |-> << >>]
  /\ UNCHANGED <<ticker_to_CIK, chart, metric1, metric2, input, tickers, i, j,
                 metric_list, fig, val_map, xy_map, UNITS, UNITS1, UNITS2,
                 stdout, fetchLog, peerLog, error>>

scatterPlotShow ==
  /\ pc = "layout" /\ chart = "scatterPlot"
  /\ IF UNITS1 = Unbound \/ UNITS2 = Unbound
     THEN /\ pc' = "aborted" /\ error' = "UnboundLocalError"
          /\ UNCHANGED shown
     ELSE /\ pc' = "rendered"
          /\ shown' = [labels |-> Column(xy_map, "key"),
                       data |-> Column(xy_map, "val"),
                       units |-> <<UNITS1, UNITS2>>]
          /\ UNCHANGED error
  /\ UNCHANGED <<ticker_to_CIK, chart, metric1, metric2, input, tickers, i, j,
                 metric_list, fig, val_map, xy_map, UNITS, UNITS1, UNITS2,
                 stdout, fetchLog, peerLog>>

\* for industry in industries: tickers = industry_dict[industry]; metric_list = []
histogramIndustry ==
  /\ pc = "industry" /\ j <= Len(input)
  /\ IF input[j] \in DOMAIN industry_dict
     THEN /\ tickers' = industry_dict[input[j]]
          /\ metric_list' = << >>
          /\ i' = 1
          /\ pc' = "histloop"
          /\ UNCHANGED error
     ELSE /\ pc' = "aborted" /\ error' = "KeyError"
          /\ UNCHANGED <<tickers, metric_list, i>>
  /\ UNCHANGED <<ticker_to_CIK, chart, metric1, metric2, input, j, fig,
                 val_map, xy_map, UNITS, UNITS1, UNITS2, stdout, fetchLog,
                 peerLog, shown>>

histogramIteration ==
  /\ pc = "histloop" /\ i <= Len(tickers)
  /\ LET ticker == tickers[i]
         r == getMetricDF(ticker_to_CIK, ticker, metric1)
     IN /\ fetchLog' = Append(fetchLog, LogEntry(ticker, metric1, 1, r))
        /\ stdout' = Printed(stdout, ticker, metric1, r)
        /\ IF r.kind = "ok"
           THEN /\ UNITS' = r.units
                /\ IF r.df # << >>
                   THEN metric_list' = Append(metric_list, TailVal(r.df))
                   ELSE UNCHANGED metric_list
           ELSE UNCHANGED <<UNITS, metric_list>>
  /\ i' = i + 1
  /\ UNCHANGED <<ticker_to_CIK, pc, chart, metric1, metric2, input, tickers, j,
                 fig, val_map, xy_map, UNITS1, UNITS2, peerLog, shown, error>>

\* fig.add_trace(go.Histogram(x=metric_list, nbinsx=40, name=industry))
histogramAddTrace ==
  /\ pc = "histloop" /\ i > Len(tickers)
  /\ fig' = Append(fig, Trace(input[j], metric_list, << >>))
  /\ j' = j + 1
  /\ pc' = "industry"
  /\ UNCHANGED <<ticker_to_CIK, chart, metric1, metric2, input, tickers, i,
                 metric_list, val_map, xy_map, UNITS, UNITS1, UNITS2, stdout,
                 fetchLog, peerLog, shown, error>>

histogramShow ==
  /\ pc = "industry" /\ j > Len(input)
  /\ IF UNITS = Unbound
     THEN /\ pc' = "aborted" /\ error' = "UnboundLocalError"
          /\ UNCHANGED shown
     ELSE /\ pc' = "rendered"
          /\ shown' = [labels |-> Column(fig, "name"),
                       data |-> Column(fig, "x"),
                       units |-> <<UNITS>>]
          /\ UNCHANGED error
  /\ UNCHANGED <<ticker_to_CIK, chart, metric1, metric2, input, tickers, i, j,
                 metric_list, fig, val_map, xy_map, UNITS, UNITS1, UNITS2,
                 stdout, fetchLog, peerLog>>

\* The chart method has returned or raised; the object is ready for the
\* next call with fresh locals (the logs are kept per call).
Return ==
  /\ pc \in {"rendered", "aborted"}
  /\ pc' = "idle" /\ chart' = "" /\ metric1' = "" /\ metric2' = ""
  /\ input' = << >>
  /\ tickers' = << >> /\ i' = 1 /\ j' = 1
  /\ metric_list' = << >> /\ fig' = << >> /\ val_map' = << >> /\ xy_map' = << >>
  /\ UNITS' = Unbound /\ UNITS1' = Unbound /\ UNITS2' = Unbound
  /\ stdout' = << >> /\ fetchLog' = << >> /\ peerLog' = << >>
  /\ shown' = NoShow /\ error' = ""
  /\ UNCHANGED ticker_to_CIK

Next ==
  \/ lineGraph \/ areaGraph \/ pieChart \/ scatterPlot \/ overlappingHistogram
  \/ PeerExpansion
  \/ lineGraphIteration \/ areaGraphIteration \/ pieChartIteration
  \/ scatterPlotIteration
  \/ lineGraphShow \/ areaGraphShow \/ pieChartShow \/ scatterPlotShow
  \/ histogramIndustry \/ histogramIteration \/ histogramAddTrace
  \/ histogramShow
  \/ Return

Spec == Init /\ [][Next]_vars

TypeOK ==
  /\ pc \in {"idle", "expand", "loop", "layout", "industry", "histloop",
             "rendered", "aborted"}
  /\ i \in 1..(Len(tickers) + 1)

\* =================================================================== claims
Range(seq) == {seq[k] : k \in 1..Len(seq)}

Finished == pc \in {"rendered", "aborted"}

\* The provider's view of one (ticker, metric), read off the catalogs and
\* the response tables without going through getMetricDF.
Catalogued(ticker) == \E k \in 1..Len(company_list) : company_list[k][3] = ticker

CatalogCIK(ticker) ==
  company_list[CHOOSE k \in 1..Len(company_list) :
                 /\ company_list[k][3] = ticker
                 /\ \A l \in (k + 1)..Len(company_list) : company_list[l][3] # ticker][1]

\* The units mapping of the metric, << >> when the ticker or the metric
\* cannot be retrieved.
ProviderUnits(ticker, metric) ==
  IF ~Catalogued(ticker) THEN << >>
  ELSE LET resp == SecGet(CatalogCIK(ticker)) IN
    IF resp.kind # "json" \/ ~resp.gaap \/ metric \notin DOMAIN resp.facts
    THEN << >>
    ELSE resp.facts[metric]

IsQuarterly(rec) == rec.form = "10-Q" /\ rec.frame \notin {Null, Absent}

RECURSIVE QuarterlyRecords(_)
QuarterlyRecords(records) ==
  IF records = << >> THEN << >>
  ELSE (IF IsQuarterly(Head(records)) THEN <<Head(records)>> ELSE << >>)
         \o QuarterlyRecords(Tail(records))

\* The MetricSeries of the design: the quarterly records of the first unit,
\* << >> standing for NoData.
SpecSeries(ticker, metric) ==
  LET units == ProviderUnits(ticker, metric) IN
    IF units = << >> THEN << >> ELSE QuarterlyRecords(units[1].records)

HasData(ticker, metric) == SpecSeries(ticker, metric) # << >>

Ends(records) == [k \in 1..Len(records) |-> records[k].end]
Vals(records) == [k \in 1..Len(records) |-> records[k].val]

RECURSIVE Dedupe(_)
Dedupe(seq) ==
  IF seq = << >> THEN << >>
  ELSE LET rest == Dedupe(SubSeq(seq, 1, Len(seq) - 1))
           last == seq[Len(seq)]
       IN IF last \in Range(rest) THEN rest ELSE Append(rest, last)

\* --------------------------------------------------------------------- C1
\* C1 (as claimed): a lineGraph / areaGraph / pieChart request with two or
\* more symbols, some of which have no data, ends with fig.show() being
\* given exactly the series of the symbols that have data, in input order,
\* each series as it is for that symbol alone.
C1ExpectedSymbols == SelectSeq(input, LAMBDA t : HasData(t, metric1))

C1Claim ==
  (/\ Finished
   /\ chart \in {"lineGraph", "areaGraph", "pieChart"}
   /\ Len(input) >= 2
   /\ \E t \in Range(input) : ~HasData(t, metric1))
  => /\ pc = "rendered"
     /\ IF chart = "pieChart"
        THEN /\ shown.labels = Dedupe(C1ExpectedSymbols)
             /\ \A k \in 1..Len(shown.labels) :
                  LET series == SpecSeries(shown.labels[k], metric1)
                  IN shown.data[k] = series[Len(series)].val
        ELSE /\ shown.labels = C1ExpectedSymbols
             /\ \A k \in 1..Len(shown.labels) :
                  LET series == SpecSeries(shown.labels[k], metric1)
                  IN /\ shown.data[k].x = Ends(series)
                     /\ shown.data[k].y = Vals(series)

\* --------------------------------------------------------------------- C2
\* C2 (as claimed): a lineGraph / areaGraph / scatterPlot request with two
\* or more symbols, and an overlappingHistogram request over catalogued
\* industries, never ends in an exception, whatever the fetch outcomes.
C2Claim ==
  (\/ chart \in {"lineGraph", "areaGraph", "scatterPlot"} /\ Len(input) >= 2
   \/ /\ chart = "overlappingHistogram" /\ Len(input) >= 1
      /\ \A k \in 1..Len(input) : input[k] \in DOMAIN industry_dict)
  => pc # "aborted"

\* --------------------------------------------------------------------- C3
\* C3: peers are queried iff the supplied list has exactly one symbol; then
\* there is exactly one query, for that symbol with criterion "sector",
\* made before any fetch, and the fetches go through the returned peers in
\* order; otherwise no query is made and the fetches go through the
\* supplied list unchanged.
Attempted == SelectSeq(fetchLog, LAMBDA e : e.slot = 1)
AttemptedTickers == [k \in 1..Len(Attempted) |-> Attempted[k].ticker]

C3Theorem ==
  chart \in PeerCharts =>
    /\ pc = "expand" => peerLog = << >> /\ fetchLog = << >>
    /\ pc # "expand" =>
         IF Len(input) = 1
         THEN /\ peerLog = << <<input[1], "sector">> >>
              /\ LET payload == PeerGet(input[1], "sector") IN
                   IF payload.kind \in {"array", "object"}
                   THEN tickers = payload.items
                   ELSE pc = "aborted" /\ fetchLog = << >>
         ELSE peerLog = << >> /\ tickers = input
    /\ AttemptedTickers = SubSeq(tickers, 1, Len(AttemptedTickers))
    /\ pc \in {"layout", "rendered"} => AttemptedTickers = tickers

C3Witness ==
  /\ chart \in PeerCharts /\ pc = "rendered"
  /\ Len(input) = 1 /\ Len(peerLog) = 1
  /\ Len(tickers) = 3 /\ AttemptedTickers = tickers

\* --------------------------------------------------------------------- C4
\* C4 (as claimed): getMetricDF never ends in an exception; every failure
\* ends in the returned no-data value.
C4Claim == \A k \in 1..Len(fetchLog) : fetchLog[k].kind # "raise"

\* --------------------------------------------------------------------- C5
\* C5: the series returned by getMetricDF holds exactly the records of the
\* selected unit with form "10-Q" and a non-null frame, each once, in the
\* provider's order; every other record is absent.
SelectedRecords(e) ==
  LET units == ProviderUnits(e.ticker, e.metric)
  IN units[CHOOSE k \in 1..Len(units) : units[k].label = e.units].records

C5Holds(e) ==
  LET records == SelectedRecords(e) IN
    /\ \A p \in 1..Len(e.df) :
         /\ e.df[p].idx + 1 \in 1..Len(records)
         /\ e.df[p].accn = records[e.df[p].idx + 1].accn
         /\ e.df[p].val = records[e.df[p].idx + 1].val
         /\ e.df[p].end = records[e.df[p].idx + 1].end
    /\ \A k \in 1..Len(records) :
         Cardinality({p \in 1..Len(e.df) : e.df[p].idx = k - 1})
           = IF records[k].form = "10-Q" /\ records[k].frame \notin {Null, Absent}
             THEN 1 ELSE 0
    /\ \A p, q \in 1..Len(e.df) : p < q => e.df[p].idx < e.df[q].idx

C5Theorem ==
  \A k \in 1..Len(fetchLog) : fetchLog[k].kind = "ok" => C5Holds(fetchLog[k])

\* A returned series that kept two records and dropped one for its form, one
\* for its null frame and one for its missing frame.
C5Witness ==
  \E k \in 1..Len(fetchLog) :
    /\ fetchLog[k].kind = "ok" /\ Len(fetchLog[k].df) = 2
    /\ LET records == SelectedRecords(fetchLog[k]) IN
         /\ \E r \in Range(records) : r.form # "10-Q" /\ r.frame \notin {Null, Absent}
         /\ \E r \in Range(records) : r.form = "10-Q" /\ r.frame = Null
         /\ \E r \in Range(records) : r.frame = Absent

\* --------------------------------------------------------------------- C6
\* C6: a returned result carries the first unit key of the metric's units
\* mapping as its unit label, its series holds records of that unit only,
\* and every call for the same symbol and metric selects the same unit.
Accns(records) == {records[k].accn : k \in 1..Len(records)}

C6Theorem ==
  /\ \A k \in 1..Len(fetchLog) :
       LET e == fetchLog[k]
           units == ProviderUnits(e.ticker, e.metric)
       IN e.kind = "ok" =>
            /\ units # << >>
            /\ e.units = units[1].label
            /\ \A p \in 1..Len(e.df) : e.df[p].accn \in Accns(units[1].records)
            /\ \A u \in 2..Len(units), p \in 1..Len(e.df) :
                 e.df[p].accn \notin Accns(units[u].records)
  /\ \A k, l \in 1..Len(fetchLog) :
       (fetchLog[k].ticker = fetchLog[l].ticker
          /\ fetchLog[k].metric = fetchLog[l].metric)
       => fetchLog[k].units = fetchLog[l].units

\* Two calls for a metric reported in two units, both answered.
C6Witness ==
  \E k, l \in 1..Len(fetchLog) :
    /\ k < l
    /\ fetchLog[k].kind = "ok" /\ fetchLog[l].kind = "ok"
    /\ fetchLog[k].ticker = fetchLog[l].ticker
    /\ fetchLog[k].metric = fetchLog[l].metric
    /\ Len(ProviderUnits(fetchLog[k].ticker, fetchLog[k].metric)) = 2
    /\ fetchLog[k].df # << >>

\* --------------------------------------------------------------------- C7
\* C7 (as claimed): when the peer query of a single-symbol request fails or
\* its payload is not a JSON array, the request ends in an error: no symbol
\* is fetched and nothing is rendered.
C7Claim ==
  (/\ chart \in PeerCharts /\ Len(input) = 1 /\ pc # "expand"
   /\ PeerGet(input[1], "sector").kind # "array")
  => pc = "aborted" /\ fetchLog = << >>

\* --------------------------------------------------------------------- C8
\* C8 (as claimed): when the chart is rendered, every symbol left out of it
\* because its fetch failed has a notice naming it and the metric on stdout.
LeftOut(e) ==
  \/ e.kind # "ok"
  \/ chart \in {"pieChart", "scatterPlot", "overlappingHistogram"} /\ e.df = << >>

C8Claim ==
  pc = "rendered" =>
    \A k \in 1..Len(fetchLog) :
      LeftOut(fetchLog[k]) =>
        <<fetchLog[k].ticker, fetchLog[k].metric>> \in Range(stdout)

\* --------------------------------------------------------------------- C9
\* C9 (as claimed): a symbol whose response parses and carries the metric
\* but whose records all fail the form/frame filter gets no trace in
\* lineGraph / areaGraph and no value in pieChart / scatterPlot /
\* overlappingHistogram.
EmptyFiltered(ticker, metric) ==
  LET units == ProviderUnits(ticker, metric) IN
    units # << >> /\ QuarterlyRecords(units[1].records) = << >>

C9Claim ==
  /\ chart \in {"lineGraph", "areaGraph"} =>
       \A k \in 1..Len(fig) : ~EmptyFiltered(fig[k].name, metric1)
  /\ chart = "pieChart" =>
       \A k \in 1..Len(val_map) : ~EmptyFiltered(val_map[k].key, metric1)
  /\ chart = "scatterPlot" =>
       \A k \in 1..Len(xy_map) :
         /\ ~EmptyFiltered(xy_map[k].key, metric1)
         /\ ~EmptyFiltered(xy_map[k].key, metric2)
  /\ (chart = "overlappingHistogram" /\ pc = "histloop") =>
       Len(metric_list) <=
         Len(SelectSeq(SubSeq(tickers, 1, i - 1),
                       LAMBDA t : ~EmptyFiltered(t, metric1)))

\* -------------------------------------------------------------------- C10
\* C10: the value pieChart, scatterPlot and overlappingHistogram plot for a
\* symbol is the value of the last record of its filtered series; in
\* scatterPlot a symbol has a point iff both fetches returned a non-empty
\* series.
LastQuarterlyVal(ticker, metric) ==
  LET series == SpecSeries(ticker, metric) IN series[Len(series)].val

Keys(d) == {d[k].key : k \in 1..Len(d)}

C10Theorem ==
  /\ chart = "pieChart" =>
       \A k \in 1..Len(val_map) :
         /\ HasData(val_map[k].key, metric1)
         /\ val_map[k].val = LastQuarterlyVal(val_map[k].key, metric1)
  /\ chart = "scatterPlot" =>
       /\ \A k \in 1..Len(xy_map) :
            /\ HasData(xy_map[k].key, metric1) /\ HasData(xy_map[k].key, metric2)
            /\ xy_map[k].val = <<LastQuarterlyVal(xy_map[k].key, metric1),
                                 LastQuarterlyVal(xy_map[k].key, metric2)>>
       /\ \A t \in Range(SubSeq(tickers, 1, i - 1)) :
            t \in Keys(xy_map) <=>
              \E a, b \in 1..Len(fetchLog) :
                /\ fetchLog[a].ticker = t /\ fetchLog[a].slot = 1
                /\ fetchLog[b].ticker = t /\ fetchLog[b].slot = 2
                /\ fetchLog[a].kind = "ok" /\ fetchLog[a].df # << >>
                /\ fetchLog[b].kind = "ok" /\ fetchLog[b].df # << >>
       /\ pc = "rendered" =>
            /\ Range(shown.labels) = Keys(xy_map)
            /\ \A k \in 1..Len(shown.labels) : shown.data[k] = xy_map[k].val
  /\ (chart = "overlappingHistogram" /\ pc = "histloop") =>
       LET usable == SelectSeq(SubSeq(tickers, 1, i - 1),
                               LAMBDA t : HasData(t, metric1))
       IN metric_list = [k \in 1..Len(usable) |-> LastQuarterlyVal(usable[k], metric1)]

\* A rendered scatter plot with a point for a symbol whose series has more
\* than one record, and without a point for a symbol whose second fetch
\* failed.
C10Witness ==
  /\ chart = "scatterPlot" /\ pc = "rendered"
  /\ \E t \in Keys(xy_map) : Len(SpecSeries(t, metric1)) >= 2
  /\ \E k \in 1..Len(fetchLog) :
       /\ fetchLog[k].slot = 2 /\ fetchLog[k].kind # "ok"
       /\ fetchLog[k].ticker \notin Keys(xy_map)
====
